---- MODULE Spec2Model ----
(***************************************************************************)
(* Model of CorrelatedAutomata.py: the Correlation object (Classical and   *)
(* Quantum variants) driven through its five calls RegisterAgent, Prepare, *)
(* LocalOperation, Observe and Observable, in any order a caller can issue *)
(* them.                                                                   *)
(*                                                                         *)
(* Number representations.                                                 *)
(*   rational  <<n, d>>      the real n/d, d > 0 (register draws, weights) *)
(*   complex   <<re, im>>    a Gaussian integer (entries of Unitary for    *)
(*                           raw parameters that are multiples of 1/2)     *)
(*   amplitude <<re, im, d>> the complex (re + i*im) * d^-0.5; Python's    *)
(*                           integer 0 is <<0, 0, 1>>                      *)
(*   raw quantum parameter h the value h/2, so that pi*h/2 is the angle    *)
(* A Python instance attribute that has not been assigned yet is absent    *)
(* from attrs; reading it raises AttributeError.                           *)
(***************************************************************************)
EXTENDS Integers, Sequences, FiniteSets, TLC

\* ---------------------------------------------------------------- bounds
MaxAgents == 2
MaxRegisterSize == 2
DrawDen == 2
MaxMemorySize == 2
MaxRemembers == 4
MaxRecords == 3
MaxWeights == 3
MaxIterations == 2
MaxDimension == 3
MaxNonZero == 2

\* the RegisterSize chsh.py gives the Correlation it hands to play
PlayRegisterSize == 2

\* ------------------------------------------------------------- variables
VARIABLES kind, RegisterSize, Agents, attrs, Operations, Register,
          Matrices, QuantumState, Observables,
          lastCall, phase, measurement,
          automata, remembered, pc, locals, log, fnIn, fnOut

\* the Correlation object and the ghosts describing its latest call
correlationVars == <<kind, RegisterSize, Agents, attrs, Operations, Register,
                     Matrices, QuantumState, Observables,
                     lastCall, phase, measurement>>

\* the LearningAutomaton objects (automata, with remembered the ghost list of
\* every record each one was given), the position and local variables of
\* play (pc, locals, with log the ghost list of the calls of the running
\* iteration), and the argument and result of a function applied on its own
automatonVars == <<automata, remembered>>
playVars == <<pc, locals, log>>
functionVars == <<fnIn, fnOut>>

vars == <<kind, RegisterSize, Agents, attrs, Operations, Register,
          Matrices, QuantumState, Observables,
          lastCall, phase, measurement,
          automata, remembered, pc, locals, log, fnIn, fnOut>>

Handles == 1..MaxAgents

\* one handle given to every automaton
FreshHandleSame(d) == MaxAgents
\* id(self) of the next automaton to be created.  Handles are opaque, so one
\* allocation order stands for all of them; it runs downwards so that a
\* handle is not its own slot index.
FreshHandle(d) == MaxAgents - Len(d)

\* --------------------------------------------------------- small helpers
Abs(x) == IF x < 0 THEN -x ELSE x

RECURSIVE Pow(_, _)
Pow(b, e) == IF e = 0 THEN 1 ELSE b * Pow(b, e - 1)

RECURSIVE SumSeq(_)
SumSeq(s) == IF s = <<>> THEN 0 ELSE Head(s) + SumSeq(Tail(s))

RatMul(a, b) == <<a[1] * b[1], a[2] * b[2]>>
RatAbs(a) == <<Abs(a[1]), a[2]>>
RatLess(a, b) == a[1] * b[2] < b[1] * a[2]

CMul(x, y) == <<x[1] * y[1] - x[2] * y[2], x[1] * y[2] + x[2] * y[1]>>
CAdd(x, y) == <<x[1] + y[1], x[2] + y[2]>>
CNeg(x) == <<-x[1], -x[2]>>
CConj(x) == <<x[1], -x[2]>>

\* sin(pi*h/2), cos(pi*h/2) and exp(i*pi*h/2) for an integer h
SinHalfPi(h) == CASE h % 4 = 0 -> 0 [] h % 4 = 1 -> 1 [] h % 4 = 2 -> 0 [] OTHER -> -1
CosHalfPi(h) == CASE h % 4 = 0 -> 1 [] h % 4 = 1 -> 0 [] h % 4 = 2 -> -1 [] OTHER -> 0
ExpHalfPi(h) == <<CosHalfPi(h), SinHalfPi(h)>>

AmpZero == <<0, 0, 1>>
AmpIsZero(x) == x[1] = 0 /\ x[2] = 0
AmpMul(x, c) == IF AmpIsZero(x) \/ c = <<0, 0>> THEN AmpZero
                ELSE <<x[1] * c[1] - x[2] * c[2], x[1] * c[2] + x[2] * c[1], x[3]>>
AmpAdd(x, y) == IF AmpIsZero(x) THEN y
                ELSE IF AmpIsZero(y) THEN x
                ELSE IF x[1] + y[1] = 0 /\ x[2] + y[2] = 0 THEN AmpZero
                ELSE <<x[1] + y[1], x[2] + y[2], x[3]>>
\* abs(amplitude**2) as a rational
AmpProb(x) == <<x[1] * x[1] + x[2] * x[2], x[3]>>

\* ------------------------------------------------------ the _Agents dict
\* An insertion-ordered dict: a sequence of <<key, value>> pairs.
DictKeys(d) == {d[i][1] : i \in 1..Len(d)}
DictGet(d, k) == d[CHOOSE i \in 1..Len(d) : d[i][1] = k][2]
DictValues(d) == [i \in 1..Len(d) |-> d[i][2]]

\* the latest call made on the object: its name, its arguments and how it ended
Call(op, h, args, outcome, value) ==
    [op |-> op, handle |-> h, args |-> args, outcome |-> outcome, value |-> value]

\* ------------------------------------------------------------------ Init
\* no automaton exists, play is not running, no function is being applied
NoAutomata == automata = <<>> /\ remembered = <<>>
NoPlay == pc = "idle" /\ locals = <<>> /\ log = <<>>
NoFunction == fnIn = <<>> /\ fnOut = <<>>

Init ==
    /\ kind \in {"Classical", "Quantum"}
    /\ RegisterSize \in 1..MaxRegisterSize
    /\ Agents = <<>>
    /\ attrs = {}
    /\ Operations = <<>>
    /\ Register = <<>>
    /\ Matrices = <<>>
    /\ QuantumState = <<>>
    /\ Observables = <<>>
    /\ lastCall = Call("init", 0, <<>>, "ok", -1)
    /\ phase = "Unprepared"
    /\ measurement = -1
    /\ NoAutomata
    /\ NoPlay
    /\ NoFunction

\* --------------------------------------------------------- RegisterAgent
\* RegisterAgent without its assertion: a registered key is assigned
\* len(self._Agents) again
RegisterAgentUnchecked(AgentId) ==
    /\ Agents' = IF AgentId \in DictKeys(Agents)
                  THEN [i \in 1..Len(Agents) |->
                          IF Agents[i][1] = AgentId THEN <<AgentId, Len(Agents)>>
                          ELSE Agents[i]]
                  ELSE Append(Agents, <<AgentId, Len(Agents)>>)
    /\ lastCall' = Call("RegisterAgent", AgentId, <<>>, "ok", -1)
    /\ UNCHANGED <<kind, RegisterSize, attrs, Operations, Register,
                   Matrices, QuantumState, Observables, phase, measurement>>

RegisterAgent(AgentId) ==
    IF AgentId \in DictKeys(Agents)
    THEN /\ lastCall' = Call("RegisterAgent", AgentId, <<>>, "error", -1)
         /\ UNCHANGED <<kind, RegisterSize, Agents, attrs, Operations, Register,
                        Matrices, QuantumState, Observables, phase, measurement>>
    ELSE /\ Agents' = Append(Agents, <<AgentId, Len(Agents)>>)
         /\ lastCall' = Call("RegisterAgent", AgentId, <<>>, "ok", -1)
         /\ UNCHANGED <<kind, RegisterSize, attrs, Operations, Register,
                        Matrices, QuantumState, Observables, phase, measurement>>

\* ------------------------------------------------------------ parameters
\* register draws of random.uniform(0,1): the grid k/DrawDen, k < DrawDen
Draws == {<<k, DrawDen>> : k \in 0..(DrawDen - 1)}

\* weight vectors a caller passes to ClassicalCorrelation.LocalOperation
\* (1/2, .., 1/2, -1)
ClassicalParams(R) ==
    { [i \in 1..R |-> IF i = R THEN <<-1, 1>> ELSE <<1, 2>>] }

\* raw parameter vectors a caller passes to QuantumCorrelation.LocalOperation,
\* in half units (1 is 0.5, 2 is 1.0), all within [-1,1]:
\* (0.5, 0.5, 0, .., 0)
QuantumParams(R) ==
    { [k \in 1..(R * R) |-> IF k <= 2 THEN 1 ELSE 0] }

\* a vector of the wrong length for either variant
BadParams(R) == [k \in 1..(R * R + 1) |-> 0]

ParamsOf(k, R) ==
    (IF k = "Classical" THEN ClassicalParams(R) ELSE QuantumParams(R))
        \cup {BadParams(R)}

\* ---------------------------------------------------------------- Unitary
\* int(len(theta)**0.5+0.1)
IntSqrt(len) ==
    IF len = 0 THEN 0
    ELSE CHOOSE n \in 1..len :
            /\ (10 * n - 1) * (10 * n - 1) <= 100 * len
            /\ 100 * len < (10 * n + 9) * (10 * n + 9)

\* p[start:stop:step] on a 1-indexed sequence, start/stop 0-based, stop exclusive
Slice(p, start, stop, step) ==
    LET cnt == IF stop <= start THEN 0 ELSE (stop - start + step - 1) \div step
    IN  [k \in 1..cnt |-> p[start + (k - 1) * step + 1]]

SplitThetaContiguous(p, N) == Slice(p, 0, (Len(p) - N) \div 2, 1)
SplitTheta(p, N) == Slice(p, 0, Len(p) - N, 2)
SplitPhi(p, N) == Slice(p, 1, Len(p) - N, 2)
SplitGamma(p, N) == Slice(p, Len(p) - N, Len(p), 1)

Identity(N) == [j \in 1..N |-> [i \in 1..N |-> IF i = j THEN <<1, 0>> ELSE <<0, 0>>]]

\* the k-th (0-based) pair of "for j1 in range(N-1): for j2 in range(j1+1,N)"
RotationPairs(N) == {q \in (0..(N - 1)) \X (0..(N - 1)) : q[1] < q[2]}
PairRank(q, N) ==
    Cardinality({o \in RotationPairs(N) : o[1] * N + o[2] < q[1] * N + q[2]})
PairAt(k, N) == CHOOSE q \in RotationPairs(N) : PairRank(q, N) = k

CScale(x, r) == <<x[1] * r, x[2] * r>>

RotateRows(U, j1, j2, theta, phi, N) ==
    LET ep == ExpHalfPi(phi)
        st == SinHalfPi(theta)
        ct == CosHalfPi(theta)
        row1 == [i \in 1..N |->
                    CAdd(CScale(U[j1 + 1][i], ct), CMul(CScale(U[j2 + 1][i], st), ep))]
        row2 == [i \in 1..N |->
                    CAdd(CMul(CScale(U[j1 + 1][i], st), CConj(ep)),
                         CNeg(CScale(U[j2 + 1][i], ct)))]
    IN  [j \in 1..N |-> IF j = j1 + 1 THEN row1 ELSE IF j = j2 + 1 THEN row2 ELSE U[j]]

RECURSIVE Rotations(_, _, _, _, _)
Rotations(U, k, theta, phi, N) ==
    IF k >= Cardinality(RotationPairs(N)) THEN U
    ELSE LET q == PairAt(k, N)
         IN  Rotations(RotateRows(U, q[1], q[2], theta[k + 1], phi[k + 1], N),
                       k + 1, theta, phi, N)

ColumnPhases(U, gamma, N) ==
    [j \in 1..N |-> [i \in 1..N |-> CMul(U[j][i], ExpHalfPi(gamma[i]))]]

\* Unitary called with the single flat vector
Unitary(p) ==
    LET N0 == IntSqrt(Len(p))
        theta == SplitTheta(p, N0)
        phi == SplitPhi(p, N0)
        gamma == SplitGamma(p, N0)
        N == Len(gamma)
    IN  ColumnPhases(Rotations(Identity(N), 0, theta, phi, N), gamma, N)

\* --------------------------------------------------------------- Prepare
\* a default that is not normalised: [1]*self.RegisterSize
DefaultOperationOnes(R) == [i \in 1..R |-> <<1, 1>>]

\* [1/self.RegisterSize]*self.RegisterSize
DefaultOperation(R) == [i \in 1..R |-> <<1, R>>]

ClassicalPrepare ==
    /\ kind = "Classical"
    /\ \E reg \in [1..RegisterSize -> Draws] :
          /\ Operations' = [a \in 1..Len(Agents) |-> DefaultOperation(RegisterSize)]
          /\ Register' = reg
    /\ attrs' = attrs \cup {"_Operations", "_Register"}
    /\ lastCall' = Call("Prepare", 0, <<>>, "ok", -1)
    /\ phase' = "Prepared"
    /\ UNCHANGED <<kind, RegisterSize, Agents, Matrices, QuantumState,
                   Observables, measurement>>

\* the stride taken to be the number of agents
PrepareStepCount(R, slots) == Len(slots)

\* sum(self.RegisterSize**a for a in self._Agents.values())
PrepareStep(R, slots) == SumSeq([k \in 1..Len(slots) |-> Pow(R, slots[k])])

PreparedAmplitude(R) == <<1, 0, R>>

QuantumPrepare ==
    /\ kind = "Quantum"
    /\ LET n == Len(Agents)
           len == Pow(RegisterSize, n)
           zeros == [k \in 1..len |-> AmpZero]
           step == PrepareStep(RegisterSize, DictValues(Agents))
           hit == IF step = 0 THEN {} ELSE {i \in 0..(len - 1) : i % step = 0}
           ok == step # 0 /\ Cardinality(hit) = RegisterSize
       IN  /\ Matrices' = [a \in 1..n |-> Identity(RegisterSize)]
           /\ QuantumState' =
                 IF ok THEN [k \in 1..len |->
                               IF (k - 1) \in hit THEN PreparedAmplitude(RegisterSize)
                               ELSE AmpZero]
                 ELSE zeros
           /\ lastCall' = Call("Prepare", 0, <<>>, IF ok THEN "ok" ELSE "error", -1)
           /\ phase' = IF ok THEN "Prepared" ELSE phase
    /\ attrs' = attrs \cup {"_Matrices", "_QuantumState"}
    /\ UNCHANGED <<kind, RegisterSize, Agents, Operations, Register,
                   Observables, measurement>>

\* -------------------------------------------------------- LocalOperation
LocalOperationParametersCount ==
    IF kind = "Classical" THEN RegisterSize ELSE RegisterSize * RegisterSize

\* the base class checking the handle only
BaseLocalOperationHandleOnly(AgentId, Parameters) ==
    AgentId \in DictKeys(Agents)

\* Correlation.LocalOperation: the two assertions of the base class
BaseLocalOperationOk(AgentId, Parameters) ==
    /\ AgentId \in DictKeys(Agents)
    /\ Len(Parameters) = LocalOperationParametersCount

LocalOperationFails(AgentId, Parameters) ==
    /\ lastCall' = Call("LocalOperation", AgentId, Parameters, "error", -1)
    /\ UNCHANGED <<kind, RegisterSize, Agents, attrs, Operations, Register,
                   Matrices, QuantumState, Observables, phase, measurement>>

ClassicalLocalOperation(AgentId, Parameters) ==
    /\ kind = "Classical"
    /\ IF /\ BaseLocalOperationOk(AgentId, Parameters)
          /\ "_Operations" \in attrs
          /\ DictGet(Agents, AgentId) < Len(Operations)
       THEN /\ Operations' =
                  [Operations EXCEPT ![DictGet(Agents, AgentId) + 1] = Parameters]
            /\ lastCall' = Call("LocalOperation", AgentId, Parameters, "ok", -1)
            /\ UNCHANGED <<kind, RegisterSize, Agents, attrs, Register, Matrices,
                           QuantumState, Observables, phase, measurement>>
       ELSE LocalOperationFails(AgentId, Parameters)

QuantumLocalOperation(AgentId, Parameters) ==
    /\ kind = "Quantum"
    /\ IF /\ BaseLocalOperationOk(AgentId, Parameters)
          /\ "_Matrices" \in attrs
          /\ DictGet(Agents, AgentId) < Len(Matrices)
       THEN /\ Matrices' =
                  [Matrices EXCEPT ![DictGet(Agents, AgentId) + 1] = Unitary(Parameters)]
            /\ lastCall' = Call("LocalOperation", AgentId, Parameters, "ok", -1)
            /\ UNCHANGED <<kind, RegisterSize, Agents, attrs, Operations, Register,
                           QuantumState, Observables, phase, measurement>>
       ELSE LocalOperationFails(AgentId, Parameters)

\* --------------------------------------------------------------- Observe
\* max(range(n), key=lambda i: keys[i]): the running best is replaced only
\* by a strictly larger key
RECURSIVE MaxScan(_, _, _)
MaxScan(keys, i, best) ==
    IF i > Len(keys) THEN best
    ELSE MaxScan(keys, i + 1, IF RatLess(keys[best], keys[i]) THEN i ELSE best)
\* the position counted from 1
PyMaxIndexFromOne(keys) == MaxScan(keys, 2, 1)
PyMaxIndex(keys) == MaxScan(keys, 2, 1) - 1

\* the weights without abs()
ClassicalWeightsSigned(register, operation) ==
    [i \in 1..Len(register) |-> RatMul(register[i], operation[i])]

ClassicalWeightsOf(register, operation) ==
    [i \in 1..Len(register) |-> RatMul(register[i], RatAbs(operation[i]))]

ClassicalObservable(register, operation) ==
    PyMaxIndex(ClassicalWeightsOf(register, operation))

ObserveFails ==
    /\ lastCall' = Call("Observe", 0, <<>>, "error", -1)
    /\ UNCHANGED <<kind, RegisterSize, Agents, attrs, Operations, Register,
                   Matrices, QuantumState, Observables, phase, measurement>>

ClassicalObserve ==
    /\ kind = "Classical"
    /\ IF "_Operations" \in attrs
       THEN /\ Observables' = [a \in 1..Len(Operations) |->
                                  ClassicalObservable(Register, Operations[a])]
            /\ attrs' = attrs \cup {"_Observables"}
            /\ lastCall' = Call("Observe", 0, <<>>, "ok", -1)
            /\ phase' = "Observed"
            /\ UNCHANGED <<kind, RegisterSize, Agents, Operations, Register,
                           Matrices, QuantumState, measurement>>
       ELSE ObserveFails

RatAdd(a, b) ==
    IF a[1] = 0 THEN b
    ELSE IF b[1] = 0 THEN a
    ELSE IF a[2] = b[2] THEN <<a[1] + b[1], a[2]>>
    ELSE <<a[1] * b[2] + b[1] * a[2], a[2] * b[2]>>

RECURSIVE RatSum(_)
RatSum(s) == IF s = <<>> THEN <<0, 1>> ELSE RatAdd(Head(s), RatSum(Tail(s)))

\* the loop returning the position after the one found
RECURSIVE WeightedScanNext(_, _, _, _)
WeightedScanNext(weights, i, upto, r) ==
    IF i > Len(weights) THEN -1
    ELSE IF ~RatLess(RatAdd(upto, weights[i]), r) THEN i
    ELSE WeightedScanNext(weights, i + 1, RatAdd(upto, weights[i]), r)

\* the loop of WeightedChoice for the draw r; -1 is "Random overflow"
RECURSIVE WeightedScan(_, _, _, _)
WeightedScan(weights, i, upto, r) ==
    IF i > Len(weights) THEN -1
    ELSE IF ~RatLess(RatAdd(upto, weights[i]), r) THEN i - 1
    ELSE WeightedScan(weights, i + 1, RatAdd(upto, weights[i]), r)

\* random.uniform(0, sum(weights)) on the grid k/DrawDen of the interval
WeightedChoice(weights, k) ==
    WeightedScan(weights, 1, <<0, 1>>, RatMul(RatSum(weights), <<k, DrawDen>>))

\* tensor_ji: the product over a = n-1 .. 0 of _Matrices[a][tj%R][ti%R]
RECURSIVE TensorEntry(_, _, _, _, _)
TensorEntry(M, R, a, tj, ti) ==
    IF a < 0 THEN <<1, 0>>
    ELSE CMul(M[a + 1][(tj % R) + 1][(ti % R) + 1],
              TensorEntry(M, R, a - 1, tj \div R, ti \div R))

RECURSIVE TransformedAmplitude(_, _, _, _, _, _)
TransformedAmplitude(Q, M, R, n, i, j) ==
    IF j >= Len(Q) THEN AmpZero
    ELSE IF AmpIsZero(Q[j + 1])   \* 0 * tensor_ji adds nothing
         THEN TransformedAmplitude(Q, M, R, n, i, j + 1)
    ELSE AmpAdd(AmpMul(Q[j + 1], TensorEntry(M, R, n - 1, j, i)),
                TransformedAmplitude(Q, M, R, n, i, j + 1))

TransformedState(Q, M, R, n) ==
    [k \in 1..Len(Q) |-> TransformedAmplitude(Q, M, R, n, k - 1, 0)]

\* the loop writing _Observables[len-1-a] = measurement % R for a = n-1 .. 0
RECURSIVE Digits(_, _, _, _)
Digits(obs, m, R, a) ==
    IF a < 0 THEN obs
    ELSE Digits([obs EXCEPT ![Len(obs) - 1 - a + 1] = m % R], m \div R, R, a - 1)

RECURSIVE Leftover(_, _, _)
Leftover(m, R, a) == IF a < 0 THEN m ELSE Leftover(m \div R, R, a - 1)

QuantumObserve ==
    /\ kind = "Quantum"
    /\ LET n == Len(Agents)
           len == Pow(RegisterSize, n)
       IN IF /\ {"_Matrices", "_QuantumState"} \subseteq attrs
             /\ Len(Matrices) >= n
             /\ Len(QuantumState) >= len
          THEN \E state \in {TransformedState(SubSeq(QuantumState, 1, len),
                                                Matrices, RegisterSize, n)} :
               \E probabilities \in {[x \in 1..len |-> AmpProb(state[x])]} :
               \E k \in 0..DrawDen :
                    LET m == WeightedChoice(probabilities, k)
                    IN IF m >= 0 /\ Leftover(m, RegisterSize, n - 1) = 0
                       THEN /\ measurement' = m
                            /\ Observables' =
                                  Digits([a \in 1..n |-> -1], m, RegisterSize, n - 1)
                            /\ attrs' = attrs \cup {"_Observables"}
                            /\ lastCall' = Call("Observe", 0, <<>>, "ok", -1)
                            /\ phase' = "Observed"
                            /\ UNCHANGED <<kind, RegisterSize, Agents, Operations,
                                           Register, Matrices, QuantumState>>
                       ELSE ObserveFails
          ELSE ObserveFails

\* ------------------------------------------------------------ Observable
Observable(AgentId) ==
    /\ IF /\ AgentId \in DictKeys(Agents)
          /\ "_Observables" \in attrs
          /\ DictGet(Agents, AgentId) < Len(Observables)
       THEN lastCall' = Call("Observable", AgentId, <<>>, "ok",
                             Observables[DictGet(Agents, AgentId) + 1])
       ELSE lastCall' = Call("Observable", AgentId, <<>>, "error", -1)
    /\ UNCHANGED <<kind, RegisterSize, Agents, attrs, Operations, Register,
                   Matrices, QuantumState, Observables, phase, measurement>>

Next ==
    \/ /\ \E h \in Handles :
             /\ h \in DictKeys(Agents) \/ h = FreshHandle(Agents)
             /\ RegisterAgent(h)
       /\ UNCHANGED <<automatonVars, playVars, functionVars>>
    \/ /\ ClassicalPrepare
       /\ UNCHANGED <<automatonVars, playVars, functionVars>>
    \/ /\ QuantumPrepare
       /\ UNCHANGED <<automatonVars, playVars, functionVars>>
    \/ /\ \E h \in Handles : \E p \in ParamsOf(kind, RegisterSize) :
             ClassicalLocalOperation(h, p)
       /\ UNCHANGED <<automatonVars, playVars, functionVars>>
    \/ /\ \E h \in Handles : \E p \in ParamsOf(kind, RegisterSize) :
             QuantumLocalOperation(h, p)
       /\ UNCHANGED <<automatonVars, playVars, functionVars>>
    \/ /\ ClassicalObserve
       /\ UNCHANGED <<automatonVars, playVars, functionVars>>
    \/ /\ QuantumObserve
       /\ UNCHANGED <<automatonVars, playVars, functionVars>>
    \/ /\ \E h \in Handles : Observable(h)
       /\ UNCHANGED <<automatonVars, playVars, functionVars>>

Spec == Init /\ [][Next]_vars

\* ====================================================== exact arithmetic
\* Reals of the automata (strategy components, probabilities, payoffs) are
\* rationals <<n, d>> in lowest terms with d > 0, so that equal values are
\* equal tuples.
RECURSIVE Gcd(_, _)
Gcd(a, b) == IF b = 0 THEN a ELSE Gcd(b, a % b)

QNorm(q) ==
    LET s == IF q[2] < 0 THEN -1 ELSE 1
        g == Gcd(Abs(q[1]), Abs(q[2]))
    IN  IF q[1] = 0 THEN <<0, 1>> ELSE <<(s * q[1]) \div g, (s * q[2]) \div g>>
QInt(n) == <<n, 1>>
\* the products are taken after cancelling, so that they stay small
QAdd(a, b) ==
    LET g == Gcd(a[2], b[2])
    IN  QNorm(<<a[1] * (b[2] \div g) + b[1] * (a[2] \div g), (a[2] \div g) * b[2]>>)
QNeg(a) == <<-a[1], a[2]>>
QSub(a, b) == QAdd(a, QNeg(b))
QMul(a, b) ==
    LET g == Gcd(Abs(a[1]), b[2])
        h == Gcd(Abs(b[1]), a[2])
    IN  IF a[1] = 0 \/ b[1] = 0 THEN <<0, 1>>
        ELSE <<(a[1] \div g) * (b[1] \div h), (a[2] \div h) * (b[2] \div g)>>
\* a / b for b # 0
QDiv(a, b) ==
    QMul(a, IF b[1] < 0 THEN <<-b[2], -b[1]>> ELSE <<b[2], b[1]>>)
QAbs(a) == <<Abs(a[1]), a[2]>>
\* n1/d1 < n2/d2 for d1, d2 > 0: the integer parts decide, and when they are
\* equal the fractions r1/d1 < r2/d2 are compared as d2/r2 < d1/r1
RECURSIVE QLessParts(_, _, _, _)
QLessParts(n1, d1, n2, d2) ==
    LET f1 == n1 \div d1
        f2 == n2 \div d2
        r1 == n1 % d1
        r2 == n2 % d2
    IN  IF f1 # f2 THEN f1 < f2
        ELSE IF r2 = 0 THEN FALSE
        ELSE IF r1 = 0 THEN TRUE
        ELSE QLessParts(d2, r2, d1, r1)
QLess(a, b) == QLessParts(a[1], a[2], b[1], b[2])
QMax(a, b) == IF QLess(a, b) THEN b ELSE a

RECURSIVE QSum(_)
QSum(s) == IF s = <<>> THEN <<0, 1>> ELSE QAdd(Head(s), QSum(Tail(s)))

EPSILON == <<1, 100000>>

\* ========================================================= Python slices
\* s[a:b] for 0 <= a, any b >= 0
PySlice(s, a, b) ==
    LET hi == IF b > Len(s) THEN Len(s) ELSE b
    IN  IF a >= hi THEN <<>> ELSE SubSeq(s, a + 1, hi)

\* s[-n:] for an integer n: -0 is 0, so the slice starts at the front
PyLast(s, n) ==
    IF n > 0 THEN PySlice(s, IF n > Len(s) THEN 0 ELSE Len(s) - n, Len(s))
    ELSE PySlice(s, -n, Len(s))

\* s[0:len(t)] = t
PySliceAssignFromStart(s, a, b, t) == t \o PySlice(s, Len(t), Len(s))
\* s[a:b] = t for 0 <= a <= b <= Len(s)
PySliceAssign(s, a, b, t) == PySlice(s, 0, a) \o t \o PySlice(s, b, Len(s))

\* ===================================================== LearningAutomaton
\* the object after __init__, its RegisterAgent call apart; Observable is -1
\* until Choose assigns the attribute
NewAutomaton(id, ChoicesCount, MemorySize, LearningRate) ==
    [id |-> id,
     ChoicesCount |-> ChoicesCount,
     MemorySize |-> MemorySize,
     LearningRate |-> LearningRate,
     ParametersCount |-> LocalOperationParametersCount,
     Memory |-> <<>>,
     Strategy |-> [i \in 1..(LocalOperationParametersCount
                              + RegisterSize * ChoicesCount) |-> <<0, 1>>],
     TotalPayoff |-> <<0, 1>>,
     TotalPlayed |-> 0,
     Observable |-> -1]

\* the slice of Strategy that holds the local operation
LocalOperationOf(a) == PySlice(a.Strategy, 0, a.ParametersCount)
\* the slice of Strategy that holds the weights used for the observable
MixedChoiceOf(a) ==
    PySlice(PySlice(a.Strategy, a.ParametersCount + a.ChoicesCount * a.Observable,
                    Len(a.Strategy)),
            0, a.ChoicesCount)

\* the record Remember appends
MemoryRecord(a, payoff) ==
    [observable |-> a.Observable,
     local_operation |-> LocalOperationOf(a),
     mixed_choice |-> MixedChoiceOf(a),
     payoff |-> payoff]

\* Remember(payoff) on the automaton a; reading the unassigned _Observable
\* raises before anything is changed
Remember(a, payoff) ==
    IF a.Observable < 0 THEN a
    ELSE [a EXCEPT
            !.Memory = PyLast(Append(a.Memory, MemoryRecord(a, payoff)),
                              a.MemorySize),
            !.TotalPayoff = QAdd(a.TotalPayoff, payoff),
            !.TotalPlayed = a.TotalPlayed + 1]

\* the mean taken over the records still in Memory
MeanPayoffOfMemory(a) ==
    QDiv(QSum([i \in 1..Len(a.Memory) |-> a.Memory[i].payoff]),
         QInt(IF Len(a.Memory) > 1 THEN Len(a.Memory) ELSE 1))

MeanPayoff(a) ==
    QDiv(a.TotalPayoff, QInt(IF 1 > a.TotalPlayed THEN 1 ELSE a.TotalPlayed))

\* ------------------------------------------------------ payoff prediction
\* sum((s1-s2)**2 for s1,s2 in zip(u, v))
Distance2(u, v) ==
    LET n == IF Len(u) < Len(v) THEN Len(u) ELSE Len(v)
    IN  QSum([i \in 1..n |-> QMul(QSub(u[i], v[i]), QSub(u[i], v[i]))])

\* the return statement averaging the coincident records only when no other
\* record was weighed before them
PredictedWhenFirst(result, weight, coincidents) ==
    IF coincidents # <<>> /\ weight = <<0, 1>>
    THEN QDiv(QSum(coincidents), QInt(Len(coincidents)))
    ELSE QDiv(result, QMax(weight, EPSILON))

\* the return statement of both predictors
Predicted(result, weight, coincidents) ==
    IF coincidents # <<>>
    THEN QDiv(QSum(coincidents), QInt(Len(coincidents)))
    ELSE QDiv(result, QMax(weight, EPSILON))

\* the loop of both predictors over the records considered, given as pairs
\* <<distance2, payoff>> in Memory order
RECURSIVE PredictScan(_, _, _, _, _)
PredictScan(entries, i, result, weight, coincidents) ==
    IF i > Len(entries) THEN Predicted(result, weight, coincidents)
    ELSE IF QLess(entries[i][1], EPSILON)
         THEN PredictScan(entries, i + 1, result, weight,
                          Append(coincidents, entries[i][2]))
    ELSE IF coincidents = <<>>
         THEN PredictScan(entries, i + 1,
                          QAdd(result, QDiv(entries[i][2], entries[i][1])),
                          QAdd(weight, QDiv(<<1, 1>>, entries[i][1])),
                          coincidents)
    ELSE PredictScan(entries, i + 1, result, weight, coincidents)

PredictLocalOperationPayoff(a, strategy) ==
    PredictScan([i \in 1..Len(a.Memory) |->
                    <<Distance2(strategy, a.Memory[i].local_operation),
                      a.Memory[i].payoff>>],
                1, <<0, 1>>, <<0, 1>>, <<>>)

\* records of another observable are skipped; the distance adds that of the
\* automaton's current local operation to the recorded one
PredictMixedChoicePayoff(a, strategy) ==
    LET same == SelectSeq(a.Memory, LAMBDA r : r.observable = a.Observable)
    IN  PredictScan([i \in 1..Len(same) |->
                        <<QAdd(Distance2(strategy, same[i].mixed_choice),
                               Distance2(LocalOperationOf(a), same[i].local_operation)),
                          same[i].payoff>>],
                    1, <<0, 1>>, <<0, 1>>, <<>>)

\* -------------------------------------------------------- NormalizedToOne
\* for a non-empty vector; the empty one fails the assertion
NormalizedToOne(weights) ==
    LET absw == [i \in 1..Len(weights) |-> QAbs(weights[i])]
        s == QSum(absw)
    IN  IF QLess(s, EPSILON)
        THEN [i \in 1..Len(absw) |-> <<1, Len(absw)>>]
        ELSE [i \in 1..Len(weights) |-> QDiv(weights[i], s)]

\* ======================================================= Operate, Choose
\* Outcomes of RandomBasis(d): the standard basis, and the standard basis
\* reversed and negated.  Both are orthonormal, and with a LearningRate that
\* is a multiple of 1/2 they keep every strategy component a multiple of 1/2.
StandardBasis(d) ==
    [i \in 1..d |-> [k \in 1..d |-> IF k = i THEN <<1, 1>> ELSE <<0, 1>>]]
ReversedBasis(d) ==
    [i \in 1..d |-> [k \in 1..d |-> IF k = d + 1 - i THEN <<-1, 1>> ELSE <<0, 1>>]]
RandomBasis(d) == {StandardBasis(d), ReversedBasis(d)}

\* [[S+d*t for S,d in zip(S, direction)] for direction in basis
\*                                      for t in (+LearningRate, -LearningRate)]
Candidates(S, basis, LearningRate) ==
    [j \in 1..(2 * Len(basis)) |->
        LET direction == basis[(j + 1) \div 2]
            t == IF j % 2 = 1 THEN LearningRate ELSE QNeg(LearningRate)
            n == IF Len(S) < Len(direction) THEN Len(S) ELSE Len(direction)
        IN  [k \in 1..n |-> QAdd(S[k], QMul(direction[k], t))]]

\* max(items, key=..) for the keys of the items: the first item whose key
\* no later scan step exceeds
RECURSIVE QMaxScan(_, _, _)
QMaxScan(keys, i, best) ==
    IF i > Len(keys) THEN best
    ELSE QMaxScan(keys, i + 1, IF QLess(keys[best], keys[i]) THEN i ELSE best)
PyMaxByKey(items, keys) == items[QMaxScan(keys, 2, 1)]

\* the local operation Operate settles on for the drawn basis
OperateStrategy(a, basis) ==
    LET candidates == Candidates(LocalOperationOf(a), basis, a.LearningRate)
    IN  PyMaxByKey(candidates,
                   [j \in 1..Len(candidates) |->
                       PredictLocalOperationPayoff(a, candidates[j])])

\* the automaton after Operate, its LocalOperation call apart
Operate(a, basis) ==
    [a EXCEPT !.Strategy =
        PySliceAssign(a.Strategy, 0, a.ParametersCount, OperateStrategy(a, basis))]

\* the automaton after Choose read the observable o and drew the basis
Choose(a, o, basis) ==
    LET seen == [a EXCEPT !.Observable = o]
        lo == a.ParametersCount + a.ChoicesCount * o
        hi == lo + a.ChoicesCount
        candidates == Candidates(PySlice(a.Strategy, lo, hi), basis, a.LearningRate)
        best == PyMaxByKey(candidates,
                           [j \in 1..Len(candidates) |->
                               PredictMixedChoicePayoff(seen, candidates[j])])
    IN  [seen EXCEPT !.Strategy = PySliceAssign(a.Strategy, lo, hi, best)]

\* what Choose returns, read off the automaton it leaves
MixedStrategy(a) ==
    NormalizedToOne([k \in 1..Len(MixedChoiceOf(a)) |-> QAbs(MixedChoiceOf(a)[k])])

\* the Parameters argument of LocalOperation: rationals for the Classical
\* variant, half units for the Quantum one
ParametersOf(k, strategy) ==
    IF k = "Classical" THEN strategy
    ELSE [i \in 1..Len(strategy) |-> (2 * strategy[i][1]) \div strategy[i][2]]

\* ------------------------------------------- Remember calls on their own
\* One automaton, created on a Correlation of either variant and past its
\* first Choose (which read the observable o and moved the first weight of
\* that observable by LearningRate), is given payoffs by its caller.
RememberPayoffs == {QInt(-1), <<1, 2>>, QInt(2)}

InitRemember ==
    /\ kind \in {"Classical", "Quantum"}
    /\ RegisterSize \in 1..MaxRegisterSize
    /\ Agents = <<<<FreshHandle(<<>>), 0>>>>
    /\ attrs = {}
    /\ Operations = <<>>
    /\ Register = <<>>
    /\ Matrices = <<>>
    /\ QuantumState = <<>>
    /\ Observables = <<>>
    /\ lastCall = Call("RegisterAgent", FreshHandle(<<>>), <<>>, "ok", -1)
    /\ phase = "Unprepared"
    /\ measurement = -1
    /\ \E MemorySize \in 0..MaxMemorySize : \E o \in 0..(RegisterSize - 1) :
          LET a == NewAutomaton(FreshHandle(<<>>), 2, MemorySize, <<1, 2>>)
          IN  automata =
                <<[a EXCEPT !.Observable = o,
                            !.Strategy[a.ParametersCount + 2 * o + 1] =
                                a.LearningRate]>>
    /\ remembered = <<<<>>>>
    /\ NoPlay
    /\ NoFunction

RememberCall(payoff) ==
    /\ automata[1].TotalPlayed < MaxRemembers
    /\ automata' = <<Remember(automata[1], payoff)>>
    /\ remembered' = <<Append(remembered[1], MemoryRecord(automata[1], payoff))>>
    /\ UNCHANGED <<correlationVars, playVars, functionVars>>

NextRemember == \E payoff \in RememberPayoffs : RememberCall(payoff)

SpecRemember == InitRemember /\ [][NextRemember]_vars

\* ------------------------------------------ the functions on their own
\* fnIn is <<function, argument>>, fnOut is <<>> before the call and
\* <<outcome, value>> after it.

\* local operations that differ in the first parameter only
FirstParameter(x, n) == [i \in 1..n |-> IF i = 1 THEN x ELSE <<0, 1>>]

\* records an automaton can hold: recorded first parameters 0, 0.001, 0.5
\* and 1 with payoffs -1 and 2
PredictRecords(a) ==
    { [observable |-> 0,
       local_operation |-> FirstParameter(x, a.ParametersCount),
       mixed_choice |-> [i \in 1..a.ChoicesCount |-> <<0, 1>>],
       payoff |-> p] :
      x \in {<<0, 1>>, <<1, 1000>>, <<1, 2>>, <<1, 1>>}, p \in {QInt(-1), QInt(2)} }

PredictCandidates(a) ==
    { FirstParameter(x, a.ParametersCount) : x \in {<<0, 1>>, <<1, 1>>} }

NormalizedToOneWeights ==
    {<<-1, 1>>, <<0, 1>>, <<1, 2>>, <<1, 1000000>>, <<-3, 1000000>>}

InitFunctions ==
    /\ kind = "Classical"
    /\ RegisterSize \in 1..MaxRegisterSize
    /\ attrs = {}
    /\ Operations = <<>>
    /\ Register = <<>>
    /\ Matrices = <<>>
    /\ QuantumState = <<>>
    /\ Observables = <<>>
    /\ phase = "Unprepared"
    /\ measurement = -1
    /\ NoPlay
    /\ fnOut = <<>>
    /\ \/ /\ Agents = <<<<FreshHandle(<<>>), 0>>>>
          /\ lastCall = Call("RegisterAgent", FreshHandle(<<>>), <<>>, "ok", -1)
          /\ \E a \in {NewAutomaton(FreshHandle(<<>>), 2, 100, <<1, 100>>)} :
             \E n \in 0..MaxRecords : \E Memory \in [1..n -> PredictRecords(a)] :
             \E strategy \in PredictCandidates(a) :
                /\ automata = <<[a EXCEPT !.Memory = Memory, !.Observable = 0]>>
                /\ remembered = <<Memory>>
                /\ fnIn = <<"PredictLocalOperationPayoff", strategy>>
       \/ /\ Agents = <<>>
          /\ lastCall = Call("init", 0, <<>>, "ok", -1)
          /\ NoAutomata
          /\ \E n \in 0..MaxWeights : \E weights \in [1..n -> NormalizedToOneWeights] :
                fnIn = <<"NormalizedToOne", weights>>

ApplyPredictLocalOperationPayoff ==
    /\ fnIn[1] = "PredictLocalOperationPayoff"
    /\ fnOut = <<>>
    /\ fnOut' = <<"ok", PredictLocalOperationPayoff(automata[1], fnIn[2])>>
    /\ UNCHANGED <<correlationVars, automatonVars, playVars, fnIn>>

ApplyNormalizedToOne ==
    /\ fnIn[1] = "NormalizedToOne"
    /\ fnOut = <<>>
    /\ fnOut' = IF fnIn[2] = <<>> THEN <<"AssertionError", <<>>>>
                ELSE <<"ok", NormalizedToOne(fnIn[2])>>
    /\ UNCHANGED <<correlationVars, automatonVars, playVars, fnIn>>

NextFunctions == ApplyPredictLocalOperationPayoff \/ ApplyNormalizedToOne

SpecFunctions == InitFunctions /\ [][NextFunctions]_vars

\* ------------------------------------------------- Unitary on its own
\* Unitary called with theta, phi and gamma given separately (lines 136-147)
UnitaryOf(theta, phi, gamma) ==
    ColumnPhases(Rotations(Identity(Len(gamma)), 0, theta, phi, Len(gamma)),
                 gamma, Len(gamma))

\* flat vectors of N*N parameters, N up to MaxDimension: zeros but for at
\* most MaxNonZero entries of 0.5 (1 in half units)
FlatVectors ==
    UNION { { [k \in 1..(N * N) |-> IF k \in S THEN 1 ELSE 0] :
                S \in {T \in SUBSET (1..(N * N)) : Cardinality(T) <= MaxNonZero} } :
            N \in 1..MaxDimension }

InitUnitary ==
    /\ kind = "Quantum"
    /\ RegisterSize \in 1..MaxRegisterSize
    /\ Agents = <<>>
    /\ attrs = {}
    /\ Operations = <<>>
    /\ Register = <<>>
    /\ Matrices = <<>>
    /\ QuantumState = <<>>
    /\ Observables = <<>>
    /\ lastCall = Call("init", 0, <<>>, "ok", -1)
    /\ phase = "Unprepared"
    /\ measurement = -1
    /\ NoAutomata
    /\ NoPlay
    /\ fnOut = <<>>
    /\ \E p \in FlatVectors : fnIn = <<"Unitary", p>>

ApplyUnitary ==
    /\ fnIn[1] = "Unitary"
    /\ fnOut = <<>>
    /\ fnOut' = <<"ok", Unitary(fnIn[2])>>
    /\ UNCHANGED <<correlationVars, automatonVars, playVars, fnIn>>

NextUnitary == ApplyUnitary

SpecUnitary == InitUnitary /\ [][NextUnitary]_vars

\* ================================================================== play
\* play is given a fresh Correlation of RegisterSize 2 as in chsh.py, a
\* LearningRate of 1/2 or 1, a MemorySize of 1 and up to MaxIterations
\* iterations;
\* adversarial is tried on the game that has more than one tuple of types
\* (with the LearningRate of 1/2), with one iteration more, so that a selection is made after each of its
\* two tuples of types has been played.
\* A Game is a nested Python list with numbers on its leaves: a number is
\* Number(q) for the rational q, a list or tuple is List(<<..>>).
Number(q) == [isNumber |-> TRUE, value |-> q, items |-> <<>>]
List(s) == [isNumber |-> FALSE, value |-> <<0, 1>>, items |-> s]
\* a tuple of integer payoffs
Tuple(s) == List([k \in 1..Len(s) |-> Number(QInt(s[k]))])

\* the while loop collecting len(nest) on the way down nest[0]
RECURSIVE NestLengths(_)
NestLengths(nest) ==
    IF nest.isNumber THEN <<>>
    ELSE <<Len(nest.items)>> \o NestLengths(nest.items[1])

\* for _ in range(n): Game = [Game]
RECURSIVE Wrapped(_, _)
Wrapped(Game, n) == IF n = 0 THEN Game ELSE Wrapped(List(<<Game>>), n - 1)

\* every depth from N + 1 on taken for a Game with one type per player
GameShapeFromDepth(Game) ==
    LET nest_lengths == NestLengths(Game)
        N == nest_lengths[Len(nest_lengths)]
    IN  IF Len(nest_lengths) >= N + 1
        THEN [ok |-> TRUE, N |-> N, Game |-> Wrapped(Game, N),
              types_count |-> [i \in 1..N |-> 1],
              choices_count |-> PySlice(nest_lengths, 0, Len(nest_lengths) - 1)]
        ELSE [ok |-> FALSE, N |-> N, Game |-> Game,
              types_count |-> <<>>, choices_count |-> <<>>]

\* lines 611-620: the number of players and the two accepted depths
GameShape(Game) ==
    LET nest_lengths == NestLengths(Game)
        N == nest_lengths[Len(nest_lengths)]
    IN  IF Len(nest_lengths) = N + 1
        THEN [ok |-> TRUE, N |-> N, Game |-> Wrapped(Game, N),
              types_count |-> [i \in 1..N |-> 1],
              choices_count |-> PySlice(nest_lengths, 0, Len(nest_lengths) - 1)]
        ELSE IF Len(nest_lengths) = 2 * N + 1
        THEN [ok |-> TRUE, N |-> N, Game |-> Game,
              types_count |-> PySlice(nest_lengths, 0, N),
              choices_count |-> PySlice(nest_lengths, N, Len(nest_lengths) - 1)]
        ELSE [ok |-> FALSE, N |-> N, Game |-> Game,
              types_count |-> <<>>, choices_count |-> <<>>]

\* all_types(i), i counted from 1: the type tuples in the order of the keys
\* of types_stats
RECURSIVE AllTypes(_, _)
AllTypes(types_count, i) ==
    IF i = Len(types_count) THEN [a \in 1..types_count[i] |-> <<a - 1>>]
    ELSE LET rest == AllTypes(types_count, i + 1)
         IN  [j \in 1..(types_count[i] * Len(rest)) |->
                <<(j - 1) \div Len(rest)>> \o rest[((j - 1) % Len(rest)) + 1]]

\* types_stats: one <<types, total, plays>> per key, in insertion order
NewTypesStats(types_count) ==
    LET keys == AllTypes(types_count, 1)
    IN  [j \in 1..Len(keys) |-> <<keys[j], <<0, 1>>, 0>>]

\* a comparison that also replaces the running best by an equal key
MeanLessOrEqual(s, t) ==
    IF s[3] = 0 THEN TRUE
    ELSE IF t[3] = 0 THEN FALSE
    ELSE ~QLess(QDiv(t[2], QInt(t[3])), QDiv(s[2], QInt(s[3])))
\* min(types_stats.keys(), key=..): -inf for a key never played, else the
\* mean; the running best is replaced only by a strictly smaller key
MeanLess(s, t) ==
    IF t[3] = 0 THEN FALSE
    ELSE IF s[3] = 0 THEN TRUE
    ELSE QLess(QDiv(s[2], QInt(s[3])), QDiv(t[2], QInt(t[3])))
RECURSIVE MinScan(_, _, _)
MinScan(stats, j, best) ==
    IF j > Len(stats) THEN best
    ELSE MinScan(stats, j + 1, IF MeanLess(stats[j], stats[best]) THEN j ELSE best)
\* the first key whatever the statistics
LeastBeneficialFirst(stats) == stats[1][1]
\* line 628
LeastBeneficialTypes(stats) == stats[MinScan(stats, 2, 1)][1]

\* tuple(random.randrange(t) for t in types_count)
RandomTypes(types_count) ==
    LET keys == AllTypes(types_count, 1) IN {keys[j] : j \in 1..Len(keys)}

\* the position in automata of the first automaton of player i
AutomatonIndexOfFirstType(types_count, i, t) ==
    SumSeq(PySlice(types_count, 0, i)) + 1
\* the position in automata (creation order) of automata[i][t], i and t
\* counted from 0
AutomatonIndex(types_count, i, t) ==
    SumSeq(PySlice(types_count, 0, i)) + t + 1

\* the player whose automaton is created at position j of automata
RECURSIVE PlayerAt(_, _, _)
PlayerAt(types_count, j, i) ==
    IF j <= types_count[i + 1] THEN i
    ELSE PlayerAt(types_count, j - types_count[i + 1], i + 1)

\* for t in types: payoffs = payoffs[t]
RECURSIVE Indexed(_, _)
Indexed(nest, types) ==
    IF types = <<>> THEN nest ELSE Indexed(nest.items[Head(types) + 1], Tail(types))

\* the payoffs of the choices weighed evenly, whatever the mixed strategies
RECURSIVE ExpectedPayoffsEven(_, _, _, _)
ExpectedPayoffsEven(i, pp, choices, N) ==
    IF i = N THEN [k \in 1..Len(pp.items) |-> pp.items[k].value]
    ELSE LET lists == [c \in 1..Len(choices[i + 1]) |->
                         LET inner == ExpectedPayoffsEven(i + 1, pp.items[c], choices, N)
                         IN  [k \in 1..Len(inner) |->
                                QMul(inner[k], <<1, Len(choices[i + 1])>>)]]
         IN  [k \in 1..Len(lists[1]) |-> QSum([c \in 1..Len(lists) |-> lists[c][k]])]

\* the recursive lambda ExpectedPayoffs(i, pp), i counted from 0
RECURSIVE ExpectedPayoffs(_, _, _, _)
ExpectedPayoffs(i, pp, choices, N) ==
    IF i = N THEN [k \in 1..Len(pp.items) |-> pp.items[k].value]
    ELSE LET lists == [c \in 1..Len(choices[i + 1]) |->
                         LET inner == ExpectedPayoffs(i + 1, pp.items[c], choices, N)
                         IN  [k \in 1..Len(inner) |->
                                QMul(inner[k], choices[i + 1][c])]]
             shortest == CHOOSE n \in {Len(lists[c]) : c \in 1..Len(lists)} :
                            \A c \in 1..Len(lists) : n <= Len(lists[c])
         IN  [k \in 1..shortest |-> QSum([c \in 1..Len(lists) |-> lists[c][k]])]

\* ------------------------------------------------------ the steps of play
\* Games handed to play: a two-player game of two choices each, a one-player
\* Bayesian game of two types and two choices, and two games that are
\* neither (depth 2 and depth 4 with leaves of length 2).
TwoPlayerGame ==
    List(<<List(<<Tuple(<<2, 1>>), Tuple(<<0, 0>>)>>),
           List(<<Tuple(<<0, 0>>), Tuple(<<1, 2>>)>>)>>)
BayesianGame ==
    List(<<List(<<Tuple(<<1>>), Tuple(<<0>>)>>),
           List(<<Tuple(<<0>>), Tuple(<<2>>)>>)>>)
ShallowGame == List(<<Tuple(<<1, 2>>), Tuple(<<3, 4>>)>>)
DeepGame == List(<<List(<<List(<<Tuple(<<1, 2>>)>>)>>)>>)
PlayGames == {TwoPlayerGame, BayesianGame, ShallowGame, DeepGame}

PlayLearningRates == {<<1, 2>>, <<1, 1>>}
PlayMemorySizes == {1}

\* the local variables of play on entry; given is the ghost copy of the Game
\* argument, which the name Game stops denoting once it is rebound, rule the
\* ghost naming the branch of lines 627-630 the running iteration took, and
\* least the ghost counting the completed iterations that took line 628
PlayLocals(Game, LearningRate, MemorySize, iterations, adversarial) ==
    [given |-> Game,
     Game |-> Game, LearningRate |-> LearningRate, MemorySize |-> MemorySize,
     iterations |-> iterations, adversarial |-> adversarial,
     N |-> 0, types_count |-> <<>>, choices_count |-> <<>>,
     types_stats |-> <<>>, progress |-> <<>>,
     iteration |-> 0, rule |-> "none", least |-> 0, types |-> <<>>, i |-> 0,
     choices |-> <<>>, payoffs |-> <<>>]

InitPlay ==
    /\ kind \in {"Classical", "Quantum"}
    /\ RegisterSize = PlayRegisterSize
    /\ Agents = <<>>
    /\ attrs = {}
    /\ Operations = <<>>
    /\ Register = <<>>
    /\ Matrices = <<>>
    /\ QuantumState = <<>>
    /\ Observables = <<>>
    /\ lastCall = Call("init", 0, <<>>, "ok", -1)
    /\ phase = "Unprepared"
    /\ measurement = -1
    /\ NoAutomata
    /\ NoFunction
    /\ pc = "start"
    /\ log = <<>>
    /\ \E Game \in PlayGames : \E LearningRate \in PlayLearningRates :
       \E MemorySize \in PlayMemorySizes :
       \E adversarial \in (IF Game = BayesianGame /\ LearningRate = <<1, 2>>
                           THEN BOOLEAN ELSE {FALSE}) :
       \E iterations \in 0..(IF adversarial THEN MaxIterations + 1 ELSE MaxIterations) :
          locals = PlayLocals(Game, LearningRate, MemorySize, iterations, adversarial)

\* the call just made on the Correlation raised
Raised == lastCall'.outcome = "error"

\* lines 606-620 and 622-624
PlayStart ==
    /\ pc = "start"
    /\ LET shape == GameShape(locals.Game)
       IN  IF shape.ok
           THEN /\ locals' = [locals EXCEPT !.Game = shape.Game,
                                            !.N = shape.N,
                                            !.types_count = shape.types_count,
                                            !.choices_count = shape.choices_count,
                                            !.types_stats = NewTypesStats(shape.types_count)]
                /\ pc' = "create"
           ELSE /\ locals' = locals
                /\ pc' = "raised"
    /\ UNCHANGED <<correlationVars, automatonVars, log, functionVars>>

\* line 621, one LearningAutomaton(..) at a time: its RegisterAgent call and
\* the rest of __init__
PlayCreate ==
    /\ pc = "create"
    /\ LET id == FreshHandle(Agents)
           i == PlayerAt(locals.types_count, Len(automata) + 1, 0)
       IN  /\ RegisterAgent(id)
           /\ IF Raised
              THEN /\ pc' = "raised"
                   /\ UNCHANGED automatonVars
              ELSE /\ automata' = Append(automata,
                          NewAutomaton(id, locals.choices_count[i + 1],
                                       locals.MemorySize, locals.LearningRate))
                   /\ remembered' = Append(remembered, <<>>)
                   /\ pc' = IF Len(automata) + 1 = SumSeq(locals.types_count)
                            THEN "loop" ELSE "create"
    /\ UNCHANGED <<locals, log, functionVars>>

\* line 625 with the range exhausted, and line 645
PlayReturn ==
    /\ pc = "loop"
    /\ locals.iteration >= locals.iterations
    /\ pc' = "done"
    /\ UNCHANGED <<correlationVars, automatonVars, locals, log, functionVars>>

\* lines 626-630: Prepare and the selection of the types
PlayPrepare ==
    /\ pc = "loop"
    /\ locals.iteration < locals.iterations
    /\ ClassicalPrepare \/ QuantumPrepare
    /\ IF Raised
       THEN pc' = "raised" /\ locals' = locals
       ELSE /\ pc' = "operate"
            /\ \E lowest \in (IF locals.adversarial THEN BOOLEAN ELSE {FALSE}) :
               \E types \in (IF lowest
                             THEN {LeastBeneficialTypes(locals.types_stats)}
                             ELSE RandomTypes(locals.types_count)) :
                  locals' = [locals EXCEPT
                                !.rule = IF lowest THEN "least" ELSE "random",
                                !.types = types, !.i = 0,
                                !.choices = <<>>, !.payoffs = <<>>]
    /\ log' = <<"Prepare">>
    /\ UNCHANGED <<automatonVars, functionVars>>

\* the automaton automata[i][types[i]] of the running loop
Selected == AutomatonIndex(locals.types_count, locals.i, locals.types[locals.i + 1])
\* the loop over the selected automata left after its first call
AfterFirst(again, next) == next
\* pc after the call of the loop over the selected automata
AfterSelected(again, next) == IF locals.i + 1 = locals.N THEN next ELSE again

\* line 631, one Operate() at a time
PlayOperate ==
    /\ pc = "operate"
    /\ \E basis \in RandomBasis(automata[Selected].ParametersCount) :
       \E a \in {Operate(automata[Selected], basis)} :
          /\ \/ ClassicalLocalOperation(a.id, ParametersOf(kind, LocalOperationOf(a)))
             \/ QuantumLocalOperation(a.id, ParametersOf(kind, LocalOperationOf(a)))
          /\ automata' = [automata EXCEPT ![Selected] = a]
    /\ pc' = IF Raised THEN "raised" ELSE AfterSelected("operate", "observe")
    /\ locals' = [locals EXCEPT !.i = (locals.i + 1) % locals.N]
    /\ log' = Append(log, "Operate")
    /\ UNCHANGED <<remembered, functionVars>>

\* line 632
PlayObserve ==
    /\ pc = "observe"
    /\ ClassicalObserve \/ QuantumObserve
    /\ pc' = IF Raised THEN "raised" ELSE "choose"
    /\ log' = Append(log, "Observe")
    /\ UNCHANGED <<automatonVars, locals, functionVars>>

\* line 633, one Choose() at a time
PlayChoose ==
    /\ pc = "choose"
    /\ Observable(automata[Selected].id)
    /\ IF Raised
       THEN pc' = "raised" /\ UNCHANGED <<automata, locals>>
       ELSE \E basis \in RandomBasis(automata[Selected].ChoicesCount) :
            \E a \in {Choose(automata[Selected], lastCall'.value, basis)} :
               /\ automata' = [automata EXCEPT ![Selected] = a]
               /\ locals' = [locals EXCEPT !.choices = Append(@, MixedStrategy(a)),
                                           !.i = (locals.i + 1) % locals.N]
               /\ pc' = AfterSelected("choose", "payoffs")
    /\ log' = Append(log, "Choose")
    /\ UNCHANGED <<remembered, functionVars>>

\* lines 634-637
PlayPayoffs ==
    /\ pc = "payoffs"
    /\ locals' = [locals EXCEPT !.payoffs =
                     ExpectedPayoffs(0, Indexed(locals.Game, locals.types),
                                     locals.choices, locals.N)]
    /\ pc' = "remember"
    /\ UNCHANGED <<correlationVars, automatonVars, log, functionVars>>

\* line 640, one Remember() at a time
PlayRemember ==
    /\ pc = "remember"
    /\ automata' = [automata EXCEPT
                      ![Selected] = Remember(@, locals.payoffs[locals.i + 1])]
    /\ remembered' = [remembered EXCEPT
                        ![Selected] = Append(@, MemoryRecord(automata[Selected],
                                                locals.payoffs[locals.i + 1]))]
    /\ locals' = [locals EXCEPT !.i = (locals.i + 1) % locals.N]
    /\ pc' = AfterSelected("remember", "record")
    /\ log' = Append(log, "Remember")
    /\ UNCHANGED <<correlationVars, functionVars>>

\* the mean of MeanPayoff over the automata that have played
MeanOfPlayed(all) ==
    LET played == SelectSeq(all, LAMBDA a : a.TotalPlayed > 0)
    IN  QDiv(QSum([j \in 1..Len(played) |-> MeanPayoff(played[j])]),
             QInt(IF played = <<>> THEN 1 ELSE Len(played)))
\* the mean of MeanPayoff over all automata
MeanOfMeans(all) ==
    QDiv(QSum([j \in 1..Len(all) |-> MeanPayoff(all[j])]), QInt(Len(all)))

\* lines 641-643
PlayRecord ==
    /\ pc = "record"
    /\ locals' = [locals EXCEPT
          !.types_stats = [j \in 1..Len(@) |->
                IF @[j][1] = locals.types
                THEN <<@[j][1], QAdd(@[j][2], QSum(locals.payoffs)), @[j][3] + 1>>
                ELSE @[j]],
          !.progress = Append(@, MeanOfMeans(automata)),
          !.least = IF locals.rule = "least" THEN @ + 1 ELSE @,
          !.iteration = @ + 1]
    /\ pc' = "loop"
    /\ UNCHANGED <<correlationVars, automatonVars, log, functionVars>>

NextPlay ==
    \/ PlayStart
    \/ PlayCreate
    \/ PlayReturn
    \/ PlayPrepare
    \/ PlayOperate
    \/ PlayObserve
    \/ PlayChoose
    \/ PlayPayoffs
    \/ PlayRemember
    \/ PlayRecord

SpecPlay == InitPlay /\ [][NextPlay]_vars

\* ================================================================ claims
Registered == DictKeys(Agents)
Slot(h) == DictGet(Agents, h)

\* the vector length each variant asks for: RegisterSize, RegisterSize^2
RequiredLength ==
    IF kind = "Classical" THEN RegisterSize ELSE Pow(RegisterSize, 2)

\* C1: in every round, Observable(handle) called after Prepare() and before
\* that round's Observe() fails; Observable returns a value only between an
\* Observe() and the next Prepare().
C1_ObservableOnlyAfterObserve ==
    lastCall.op = "Observable" =>
        /\ phase = "Prepared" => lastCall.outcome = "error"
        /\ lastCall.outcome = "ok" => phase = "Observed"

\* C2: a LocalOperation with a registered handle and a correct-length vector
\* that is made before the first Prepare(), or after Observe() and before the
\* next Prepare(), is rejected and changes no agent's stored operation.
C2_LocalOperationOnlyWhilePrepared ==
    [][ ( /\ lastCall'.op = "LocalOperation"
          /\ lastCall'.handle \in Registered
          /\ Len(lastCall'.args) = RequiredLength
          /\ phase # "Prepared" )
        => ( /\ lastCall'.outcome = "error"
             /\ UNCHANGED <<Operations, Matrices>> ) ]_vars

\* C3: RegisterAgent gives a new handle the slot equal to the number of agents
\* registered so far and fails for a registered handle, leaving the mapping
\* unchanged; the handle-to-slot mapping is always a bijection from the
\* registered handles onto 0..n-1 in registration order.
C3_SlotsInRegistrationOrder ==
    /\ [] ( /\ Cardinality(Registered) = Len(Agents)
            /\ \A i \in 1..Len(Agents) : Agents[i][2] = i - 1 )
    /\ [][ lastCall'.op = "RegisterAgent" =>
            IF lastCall'.handle \in Registered
            THEN lastCall'.outcome = "error" /\ Agents' = Agents
            ELSE /\ lastCall'.outcome = "ok"
                 /\ Agents' = Append(Agents,
                                     <<lastCall'.handle, Cardinality(Registered)>>) ]_vars

C3_Witness ==
    /\ Len(Agents) = 2
    /\ lastCall.op = "RegisterAgent"
    /\ lastCall.outcome = "error"

\* C4: LocalOperation fails for an unregistered handle and for a vector whose
\* length is not LocalOperationParametersCount(); a failed call changes no
\* stored operation; a successful call replaces the operation of the calling
\* agent's slot and of no other slot.
C4_LocalOperationValidates ==
    [][ lastCall'.op = "LocalOperation" =>
        LET h == lastCall'.handle
            p == lastCall'.args
        IN  /\ (h \notin Registered \/ Len(p) # RequiredLength)
                  => lastCall'.outcome = "error"
            /\ lastCall'.outcome = "error" => UNCHANGED <<Operations, Matrices>>
            /\ lastCall'.outcome = "ok" =>
                  /\ Len(Operations') = Len(Operations)
                  /\ Len(Matrices') = Len(Matrices)
                  /\ \A a \in 1..Len(Operations) :
                        a # Slot(h) + 1 => Operations'[a] = Operations[a]
                  /\ \A a \in 1..Len(Matrices) :
                        a # Slot(h) + 1 => Matrices'[a] = Matrices[a]
                  /\ kind = "Classical" => Operations'[Slot(h) + 1] = p
                  /\ kind = "Quantum" => Matrices'[Slot(h) + 1] = Unitary(p) ]_vars

C4_Witness ==
    /\ lastCall.op = "LocalOperation"
    /\ lastCall.outcome = "ok"
    /\ Len(Agents) = 2
    /\ IF kind = "Classical" THEN Operations[1] # Operations[2]
       ELSE Matrices[1] # Matrices[2]

\* C5: immediately after Prepare(), every registered agent's stored operation
\* is the default, weight 1/RegisterSize at every position (Classical) or the
\* identity matrix (Quantum), whatever was supplied in earlier rounds.
C5_PrepareResetsOperations ==
    lastCall.op = "Prepare" =>
        IF kind = "Classical"
        THEN /\ Len(Operations) = Len(Agents)
             /\ \A a \in 1..Len(Operations) :
                   /\ Len(Operations[a]) = RegisterSize
                   /\ \A i \in 1..RegisterSize :
                         Operations[a][i][1] * RegisterSize = Operations[a][i][2]
        ELSE /\ Len(Matrices) = Len(Agents)
             /\ \A a \in 1..Len(Matrices) :
                   /\ Len(Matrices[a]) = RegisterSize
                   /\ \A j \in 1..RegisterSize :
                         /\ Len(Matrices[a][j]) = RegisterSize
                         /\ \A i \in 1..RegisterSize :
                               Matrices[a][j][i] = IF i = j THEN <<1, 0>> ELSE <<0, 0>>

\* a Prepare made while the Observables of an earlier round differ, which
\* they do only after a LocalOperation in that round
C5_Witness ==
    /\ lastCall.op = "Prepare"
    /\ lastCall.outcome = "ok"
    /\ Len(Agents) = 2
    /\ "_Observables" \in attrs
    /\ Len(Observables) = 2
    /\ Observables[1] # Observables[2]

\* Prepare() has been called and no RegisterAgent came after the last one
PreparedForAllAgents ==
    IF kind = "Classical"
    THEN "_Operations" \in attrs /\ Len(Operations) = Len(Agents)
    ELSE "_Matrices" \in attrs /\ Len(Matrices) = Len(Agents)

ObservablesComplete ==
    /\ "_Observables" \in attrs
    /\ Len(Observables) = Len(Agents)
    /\ \A a \in 1..Len(Observables) : Observables[a] \in 0..(RegisterSize - 1)

\* C6 as claimed: after any sequence of RegisterAgent, Prepare and
\* LocalOperation calls, Observe() succeeds and leaves one Observable in
\* 0..RegisterSize-1 for every registered agent, whenever it was registered.
C6_ObserveAlwaysSucceeds ==
    lastCall.op = "Observe" =>
        /\ lastCall.outcome = "ok"
        /\ ObservablesComplete

\* C6 as amended: when Prepare() has been called and no RegisterAgent came
\* after the last Prepare(), Observe() succeeds and leaves one Observable in
\* 0..RegisterSize-1 for every registered agent, and Observable(handle) then
\* returns that value for every registered handle.
C6_ObserveAfterPrepareForAll ==
    /\ (lastCall.op = "Observe" /\ PreparedForAllAgents) =>
          /\ lastCall.outcome = "ok"
          /\ ObservablesComplete
    /\ ( /\ lastCall.op = "Observable"
         /\ lastCall.handle \in Registered
         /\ phase = "Observed"
         /\ PreparedForAllAgents ) =>
          /\ lastCall.outcome = "ok"
          /\ lastCall.value = Observables[Slot(lastCall.handle) + 1]
          /\ lastCall.value \in 0..(RegisterSize - 1)

C6_Witness ==
    /\ lastCall.op = "Observable"
    /\ lastCall.outcome = "ok"
    /\ phase = "Observed"
    /\ PreparedForAllAgents
    /\ Len(Agents) = 2
    /\ Slot(lastCall.handle) = 1
    /\ lastCall.value = RegisterSize - 1

\* register[i] * |weight[i]| as a rational, i counted from 0
WeightedKey(register, weight, i) ==
    <<register[i + 1][1] * Abs(weight[i + 1][1]), register[i + 1][2] * weight[i + 1][2]>>

FirstArgMax(register, weight, i) ==
    /\ i \in 0..(Len(register) - 1)
    /\ \A j \in 0..(Len(register) - 1) :
          /\ ~RatLess(WeightedKey(register, weight, i), WeightedKey(register, weight, j))
          /\ j < i => RatLess(WeightedKey(register, weight, j),
                              WeightedKey(register, weight, i))

\* C7: ClassicalCorrelation.Observe() gives each agent the first index that
\* maximizes register[i]*|weight[i]| over its stored weights; two agents with
\* identical stored weights get identical Observables.
C7_ClassicalWeightedArgmax ==
    (kind = "Classical" /\ lastCall.op = "Observe" /\ lastCall.outcome = "ok") =>
        /\ Len(Observables) = Len(Operations)
        /\ \A a \in 1..Len(Operations) :
              FirstArgMax(Register, Operations[a], Observables[a])
        /\ \A a, b \in 1..Len(Operations) :
              Operations[a] = Operations[b] => Observables[a] = Observables[b]

C7_Witness ==
    /\ kind = "Classical"
    /\ lastCall.op = "Observe"
    /\ lastCall.outcome = "ok"
    /\ RegisterSize = 2
    /\ Len(Operations) = 2
    /\ Operations[1] = Operations[2]
    /\ Operations[1] \in ClassicalParams(RegisterSize)
    /\ Observables[1] = 1

\* C8: QuantumCorrelation, RegisterSize 2, two agents, both operations the
\* default identity: after Observe() the two Observables are equal, for every
\* measurement draw.
C8_IdentityOperationsAgree ==
    ( /\ kind = "Quantum"
      /\ RegisterSize = 2
      /\ Len(Agents) = 2
      /\ lastCall.op = "Observe"
      /\ lastCall.outcome = "ok"
      /\ Matrices = <<Identity(2), Identity(2)>> )
    => Observables[1] = Observables[2]

C8_Witness ==
    /\ kind = "Quantum"
    /\ RegisterSize = 2
    /\ Len(Agents) = 2
    /\ lastCall.op = "Observe"
    /\ lastCall.outcome = "ok"
    /\ Matrices = <<Identity(2), Identity(2)>>
    /\ Observables = <<1, 1>>

\* the digit of m at position a, position 0 the least significant
DigitAt(m, R, a) == (m \div Pow(R, a)) % R

\* C9: QuantumCorrelation.Observe() gives the most significant base-
\* RegisterSize digit of the sampled index to the first-registered agent
\* (slot 0) and the least significant digit to the last-registered agent.
C9_MostSignificantDigitFirst ==
    (kind = "Quantum" /\ lastCall.op = "Observe" /\ lastCall.outcome = "ok") =>
        \A a \in 0..(Len(Agents) - 1) :
            Observables[a + 1] = DigitAt(measurement, RegisterSize, Len(Agents) - 1 - a)

\* C10: after QuantumCorrelation.Prepare() with n >= 1 agents the state vector
\* has length RegisterSize^n; its nonzero amplitudes are exactly RegisterSize
\* entries, all RegisterSize^-0.5, at exactly the indices whose n digits are
\* all identical.
C10_MaximallyCorrelatedState ==
    (kind = "Quantum" /\ lastCall.op = "Prepare" /\ Len(Agents) >= 1) =>
        LET n == Len(Agents)
            len == Pow(RegisterSize, n)
            same(idx) == \A a \in 0..(n - 1) :
                            DigitAt(idx, RegisterSize, a) = DigitAt(idx, RegisterSize, 0)
        IN  /\ lastCall.outcome = "ok"
            /\ Len(QuantumState) = len
            /\ \A idx \in 0..(len - 1) :
                  QuantumState[idx + 1] =
                      IF same(idx) THEN <<1, 0, RegisterSize>> ELSE <<0, 0, 1>>
            /\ Cardinality({idx \in 0..(len - 1) :
                               ~AmpIsZero(QuantumState[idx + 1])}) = RegisterSize

C10_Witness ==
    /\ kind = "Quantum"
    /\ lastCall.op = "Prepare"
    /\ lastCall.outcome = "ok"
    /\ Len(Agents) = 2
    /\ RegisterSize = 2
    /\ QuantumState[4] = <<1, 0, 2>>
\* ---- C11
\* Memory never holds more than MemorySize records, and it holds the latest
\* records given to Remember, in the order they were given.
C11_MemoryHoldsLatestRecords ==
    \A i \in 1..Len(automata) :
        LET a == automata[i]
            given == remembered[i]
            n == IF Len(given) < a.MemorySize THEN Len(given) ELSE a.MemorySize
        IN  /\ Len(a.Memory) <= a.MemorySize
            /\ a.Memory = SubSeq(given, Len(given) - n + 1, Len(given))

\* ---- C19
\* MeanPayoff is the sum of every payoff ever given to Remember divided by
\* the number of Remember calls, evicted records included, and 0 when
\* Remember was never called.
C19_MeanPayoffOverAllCalls ==
    \A i \in 1..Len(automata) :
        LET given == remembered[i]
            total == QSum([k \in 1..Len(given) |-> given[k].payoff])
        IN  MeanPayoff(automata[i]) =
              IF given = <<>> THEN <<0, 1>> ELSE QDiv(total, QInt(Len(given)))

\* an automaton has lost a record and the lost payoff still counts
C19_Witness ==
    \E i \in 1..Len(automata) :
        /\ Len(remembered[i]) > Len(automata[i].Memory)
        /\ automata[i].Memory # <<>>
        /\ MeanPayoff(automata[i]) # MeanPayoffOfMemory(automata[i])
        /\ MeanPayoff(automata[i]) # <<0, 1>>

Coincident(a, strategy) ==
    SelectSeq(a.Memory,
              LAMBDA r : QLess(Distance2(strategy, r.local_operation), EPSILON))

\* ---- C12
\* When Memory holds records whose local operation lies within squared
\* distance EPSILON of the candidate, PredictLocalOperationPayoff returns the
\* plain average of the payoffs of exactly those records, wherever they
\* stand in Memory.
C12_CoincidentRecordsAveraged ==
    (fnIn # <<>> /\ fnIn[1] = "PredictLocalOperationPayoff" /\ fnOut # <<>>) =>
        LET c == Coincident(automata[1], fnIn[2])
        IN  c # <<>> =>
              fnOut = <<"ok", QDiv(QSum([i \in 1..Len(c) |-> c[i].payoff]),
                                   QInt(Len(c)))>>

\* an other record stands before two coincident records of different
\* payoffs, one of which is not the candidate itself
C12_Witness ==
    /\ fnIn # <<>> /\ fnIn[1] = "PredictLocalOperationPayoff" /\ fnOut # <<>>
    /\ LET a == automata[1]
           c == Coincident(a, fnIn[2])
       IN  /\ Len(a.Memory) = 3
           /\ Len(c) = 2
           /\ c[1] # a.Memory[1]
           /\ c[1].payoff # c[2].payoff
           /\ c[1].local_operation # c[2].local_operation
           /\ fnOut = <<"ok", <<1, 2>>>>

\* ---- C18
\* For every non-empty weight vector NormalizedToOne returns a vector of the
\* same length with nonnegative entries that sum to 1, the uniform one when
\* the absolute values sum to less than EPSILON.
C18_NormalizedIsDistribution ==
    (fnIn # <<>> /\ fnIn[1] = "NormalizedToOne" /\ fnIn[2] # <<>> /\ fnOut # <<>>) =>
        LET weights == fnIn[2]
            n == Len(weights)
        IN  /\ fnOut[1] = "ok"
            /\ Len(fnOut[2]) = n
            /\ \A i \in 1..n : ~QLess(fnOut[2][i], <<0, 1>>)
            /\ QSum(fnOut[2]) = <<1, 1>>
            /\ QLess(QSum([i \in 1..n |-> QAbs(weights[i])]), EPSILON) =>
                  \A i \in 1..n : fnOut[2][i] = <<1, n>>

IterationCalls(N) ==
    <<"Prepare">> \o [k \in 1..N |-> "Operate"] \o <<"Observe">>
        \o [k \in 1..N |-> "Choose"] \o [k \in 1..N |-> "Remember"]

CallsInOrder ==
    /\ Len(log) <= 3 * locals.N + 2
    /\ log = SubSeq(IterationCalls(locals.N), 1, Len(log))
    /\ pc = "record" \/ (pc \in {"loop", "done"} /\ locals.iteration > 0) =>
          log = IterationCalls(locals.N)
    /\ pc \in {"loop", "done"} /\ locals.iteration = 0 => log = <<>>

\* what the step that logged a call did to the Correlation
Logged(call) == log' = Append(log, call)
CallReachesCorrelation ==
    /\ log' # log => log' = <<"Prepare">> \/ log' = Append(log, log'[Len(log')])
    /\ log' = <<"Prepare">> /\ log' # log =>
          lastCall'.op = "Prepare" /\ lastCall'.outcome = "ok" /\ phase' = "Prepared"
    /\ Logged("Operate") =>
          /\ lastCall'.op = "LocalOperation" /\ lastCall'.outcome = "ok"
          /\ lastCall'.handle = automata[Selected].id
          /\ phase = "Prepared"
          /\ ~ \E k \in 1..Len(log) : log[k] = "Observe"
    /\ Logged("Observe") =>
          lastCall'.op = "Observe" /\ lastCall'.outcome = "ok" /\ phase' = "Observed"
    /\ Logged("Choose") =>
          /\ lastCall'.op = "Observable" /\ lastCall'.outcome = "ok"
          /\ lastCall'.handle = automata[Selected].id
          /\ phase = "Observed"
          /\ \E k \in 1..Len(log) : log[k] = "Observe"
    /\ Logged("Remember") => UNCHANGED correlationVars
    /\ lastCall' # lastCall /\ lastCall'.op # "RegisterAgent" => log' # log

\* ---- C13
\* In every iteration of play the calls are Prepare, then Operate of every
\* selected automaton (each issuing its LocalOperation), then Observe, then
\* Choose of every selected automaton (each reading its Observable), then
\* Remember of every selected automaton; every LocalOperation reaches the
\* Correlation between that iteration's Prepare and Observe, and every
\* Observable is read after that iteration's Observe.
C13_IterationCallOrder == []CallsInOrder /\ [][CallReachesCorrelation]_vars

\* a second iteration of the two-player game has made all its calls
C13_Witness ==
    /\ pc = "record"
    /\ locals.N = 2
    /\ locals.iteration = 1
    /\ log = <<"Prepare", "Operate", "Operate", "Observe",
               "Choose", "Choose", "Remember", "Remember">>

\* the number of list levels above the numbers, along the first branch
RECURSIVE Depth(_)
Depth(nest) == IF nest.isNumber THEN 0 ELSE 1 + Depth(nest.items[1])
\* the length of level k (from 1, outermost), along the first branch
RECURSIVE Dimension(_, _)
Dimension(nest, k) ==
    IF k = 1 THEN Len(nest.items) ELSE Dimension(nest.items[1], k - 1)
LeafLength(nest) == Dimension(nest, Depth(nest))

\* ---- C14
\* play takes N from the length of a payoff leaf and accepts a Game of
\* nesting depth N+1 (one type per player, the N outer dimensions being the
\* choice counts) or 2N+1 (the first N dimensions being the type counts, the
\* next N the choice counts); for every other depth it raises before any
\* automaton is created or registered and before any Prepare.
C14_DepthDecidesAcceptance ==
    pc \notin {"idle", "start"} =>
        LET N == LeafLength(locals.given)
            depth == Depth(locals.given)
        IN  IF depth = N + 1
            THEN /\ pc # "raised"
                 /\ locals.N = N
                 /\ locals.types_count = [i \in 1..N |-> 1]
                 /\ locals.choices_count =
                       [i \in 1..N |-> Dimension(locals.given, i)]
            ELSE IF depth = 2 * N + 1
            THEN /\ pc # "raised"
                 /\ locals.N = N
                 /\ locals.types_count =
                       [i \in 1..N |-> Dimension(locals.given, i)]
                 /\ locals.choices_count =
                       [i \in 1..N |-> Dimension(locals.given, N + i)]
            ELSE /\ pc = "raised"
                 /\ automata = <<>>
                 /\ Agents = <<>>
                 /\ lastCall.op = "init"
                 /\ phase = "Unprepared"
                 /\ locals.progress = <<>>

\* a Game of depth 4 with leaves of length 2 has been refused
C14_Witness ==
    /\ pc = "raised"
    /\ Depth(locals.given) = 4
    /\ LeafLength(locals.given) = 2
    /\ Agents = <<>>

\* the type counts a Game shows: one per player at depth N+1, else its first
\* N dimensions
TypeCountsOf(Game) ==
    [i \in 1..LeafLength(Game) |->
        IF Depth(Game) = LeafLength(Game) + 1 THEN 1 ELSE Dimension(Game, i)]
ChoiceCountsOf(Game) ==
    [i \in 1..LeafLength(Game) |->
        IF Depth(Game) = LeafLength(Game) + 1 THEN Dimension(Game, i)
        ELSE Dimension(Game, LeafLength(Game) + i)]

\* the <<player, type>> pairs of a Game
PlayerTypes(Game) ==
    {<<i, t>> \in (0..(LeafLength(Game) - 1)) \X (0..(SumSeq(TypeCountsOf(Game)) - 1)) :
        t < TypeCountsOf(Game)[i + 1]}

AutomataPerPlayerType ==
    /\ pc = "raised" => automata = <<>> /\ Agents = <<>>
    /\ pc = "create" => phase = "Unprepared" /\ Len(Agents) = Len(automata)
    /\ pc \in {"loop", "operate", "observe", "choose", "payoffs", "remember",
               "record", "done"} =>
          LET tc == TypeCountsOf(locals.given)
              at(p) == AutomatonIndex(tc, p[1], p[2])
          IN  /\ Len(automata) = SumSeq(tc)
              /\ Len(Agents) = SumSeq(tc)
              /\ \A p \in PlayerTypes(locals.given) :
                    /\ at(p) \in 1..Len(automata)
                    /\ automata[at(p)].ChoicesCount = ChoiceCountsOf(locals.given)[p[1] + 1]
                    /\ automata[at(p)].id \in DictKeys(Agents)
              /\ \A p, q \in PlayerTypes(locals.given) :
                    p # q => /\ at(p) # at(q)
                             /\ automata[at(p)].id # automata[at(q)].id

RegistrationsKept ==
    pc \notin {"start", "create"} =>
        /\ Agents' = Agents
        /\ Len(automata') = Len(automata)
        /\ \A j \in 1..Len(automata) : automata'[j].id = automata[j].id

\* ---- C15
\* play on a Correlation without agents creates one LearningAutomaton per
\* (player, type) pair, each registered under its own handle with that
\* Correlation: the registered agents number the sum of the type counts
\* before the first Prepare, and stay the same during the iterations.
C15_OneAutomatonPerPlayerType ==
    []AutomataPerPlayerType /\ [][RegistrationsKept]_vars

\* the one-player game of two types has played two iterations on its two
\* automata
C15_Witness ==
    /\ pc = "done"
    /\ locals.iteration = 2
    /\ TypeCountsOf(locals.given) = <<2>>
    /\ Len(Agents) = 2
    /\ Len(automata) = 2

\* what MeanPayoff of automaton j is by the payoffs it was given
MeanGiven(j) ==
    LET given == remembered[j]
    IN  IF given = <<>> THEN <<0, 1>>
        ELSE QDiv(QSum([k \in 1..Len(given) |-> given[k].payoff]), QInt(Len(given)))

ProgressPerRound ==
    /\ Len(locals.progress) = locals.iteration
    /\ locals.iteration <= locals.iterations
    /\ pc = "done" => Len(locals.progress) = locals.iterations
    /\ pc \in {"loop", "done"} /\ locals.iteration > 0 =>
          locals.progress[locals.iteration] =
              QDiv(QSum([j \in 1..Len(automata) |-> MeanGiven(j)]),
                   QInt(Len(automata)))

ProgressAppended ==
    /\ Len(locals.progress') >= Len(locals.progress)
    /\ SubSeq(locals.progress', 1, Len(locals.progress)) = locals.progress
    /\ locals.progress' # locals.progress =>
          /\ Len(locals.progress') = Len(locals.progress) + 1
          /\ SumSeq([j \in 1..Len(automata) |-> Len(remembered[j])]) =
                locals.N * (locals.iteration + 1)

\* ---- C16
\* play ends after exactly `iterations` rounds and returns a sequence of
\* that length whose k-th element is the mean, over all automata created
\* (selected in round k or not, one that never played counting 0), of
\* MeanPayoff as it stands after the Remember calls of round k.
C16_ProgressIsMeanOfMeans == []ProgressPerRound /\ [][ProgressAppended]_vars

\* two rounds of the game of two types returned, one automaton never played
C16_Witness ==
    /\ pc = "done"
    /\ locals.iterations = 2
    /\ Len(locals.progress) = 2
    /\ \E j \in 1..Len(automata) : remembered[j] = <<>>
    /\ locals.progress[2] # <<0, 1>>
    /\ locals.progress[2] # locals.progress[1]

\* the combinations (c_1..c_N) of pure choices, numbered from 0
Combinations(choices) ==
    {c \in [1..Len(choices) -> 0..(Len(choices[1]) + Len(choices[Len(choices)]))] :
        \A k \in 1..Len(choices) : c[k] < Len(choices[k])}

\* the product of choices[k][c_k] over the players
RECURSIVE Probability(_, _, _)
Probability(choices, c, k) ==
    IF k > Len(choices) THEN <<1, 1>>
    ELSE QMul(choices[k][c[k] + 1], Probability(choices, c, k + 1))

\* component i (from 1) of the payoff leaf Game[types][c_1]..[c_N]
LeafPayoff(c, i) ==
    Indexed(Indexed(locals.Game, locals.types), c).items[i].value

\* the sum over the combinations in S of probability times leaf component i
RECURSIVE SumOver(_, _)
SumOver(S, i) ==
    IF S = {} THEN <<0, 1>>
    ELSE LET c == CHOOSE x \in S : TRUE
         IN  QAdd(QMul(Probability(locals.choices, c, 1), LeafPayoff(c, i)),
                  SumOver(S \ {c}, i))

ExpectedComponent(i) == SumOver(Combinations(locals.choices), i)

\* every mixed strategy of the round puts probability 1 on one choice
PointStrategies ==
    \A k \in 1..Len(locals.choices) :
        \E x \in 1..Len(locals.choices[k]) : locals.choices[k][x] = <<1, 1>>
\* that choice, numbered from 0
PointChoice(k) ==
    (CHOOSE x \in 1..Len(locals.choices[k]) : locals.choices[k][x] = <<1, 1>>) - 1

\* ---- C17
\* The payoff vector of an iteration is the sum, over every combination of
\* pure choices, of the product of the players' probabilities of their
\* choice times the payoff leaf of the selected types at that combination;
\* the selected automaton of player i is given component i in Remember.
\* With point distributions throughout it is the leaf at the chosen
\* combination.
C17_PayoffsAreExpectation ==
    pc \in {"remember", "record"} =>
        /\ Len(locals.payoffs) = locals.N
        /\ \A i \in 1..locals.N :
              /\ locals.payoffs[i] = ExpectedComponent(i)
              /\ (pc = "record" \/ i <= locals.i) =>
                    LET given == remembered[AutomatonIndex(locals.types_count, i - 1,
                                                           locals.types[i])]
                    IN  /\ Len(given) > 0
                        /\ given[Len(given)].payoff = ExpectedComponent(i)
        /\ PointStrategies =>
              \A i \in 1..locals.N :
                  locals.payoffs[i] =
                      LeafPayoff([k \in 1..locals.N |-> PointChoice(k)], i)

\* two players, each mixing both choices evenly, have been given payoffs
\* that are no payoff leaf
C17_Witness ==
    /\ pc = "record"
    /\ locals.N = 2
    /\ \A k \in 1..2 : locals.choices[k] = <<<<1, 2>>, <<1, 2>>>>
    /\ locals.payoffs = <<<<3, 4>>, <<3, 4>>>>

\* ---- C20
\* Every raw parameter that reaches QuantumCorrelation.LocalOperation from
\* an automaton's Operate lies in [-1,1] (in half units: in -2..2), however
\* many rounds were played.
C20_RawParametersWithinUnit ==
    (pc # "idle" /\ kind = "Quantum" /\ lastCall.op = "LocalOperation") =>
        \A k \in 1..Len(lastCall.args) :
            lastCall.args[k] >= -2 /\ lastCall.args[k] <= 2


\* the N of a flat vector of N*N parameters
Side(p) == CHOOSE N \in 1..Len(p) : N * N = Len(p)
\* the entries first+1 .. first+count of p
Entries(p, first, count) == [k \in 1..count |-> p[first + k]]
\* the matrix of three contiguous slices theta, phi, gamma of p
ContiguousUnitary(p) ==
    LET N == Side(p)
        h == (N * (N - 1)) \div 2
    IN  UnitaryOf(Entries(p, 0, h), Entries(p, h, h), Entries(p, 2 * h, N))
\* the matrix of alternating entries: theta and phi take turns over the
\* first N(N-1) entries, gamma is the last N
AlternatingUnitary(p) ==
    LET N == Side(p)
        h == (N * (N - 1)) \div 2
    IN  UnitaryOf([k \in 1..h |-> p[2 * k - 1]], [k \in 1..h |-> p[2 * k]],
                  Entries(p, 2 * h, N))

\* ---- C21 (as stated)
\* Unitary of a flat vector of N*N entries is the matrix of theta = its first
\* N(N-1)/2 entries, phi = the next N(N-1)/2 entries and gamma = the last N.
C21_ContiguousSlices ==
    (fnIn # <<>> /\ fnIn[1] = "Unitary" /\ fnOut # <<>>) =>
        fnOut = <<"ok", ContiguousUnitary(fnIn[2])>>

\* ---- C21 (amended)
\* Unitary of a flat vector of N*N entries takes theta and phi alternately
\* from the first N(N-1) entries (theta at positions 0, 2, 4, .., phi at
\* positions 1, 3, 5, ..) and gamma from the last N; for N <= 2 these are the
\* three contiguous slices.
C21_AlternatingSlices ==
    (fnIn # <<>> /\ fnIn[1] = "Unitary" /\ fnOut # <<>>) =>
        /\ fnOut = <<"ok", AlternatingUnitary(fnIn[2])>>
        /\ Side(fnIn[2]) <= 2 => fnOut[2] = ContiguousUnitary(fnIn[2])

C21_Witness ==
    /\ fnIn # <<>> /\ fnIn[1] = "Unitary" /\ fnOut # <<>>
    /\ Side(fnIn[2]) = 3
    /\ fnIn[2][2] = 1
    /\ fnOut[2] = AlternatingUnitary(fnIn[2])
    /\ fnOut[2] # ContiguousUnitary(fnIn[2])


\* the keys of types_stats never played, and the mean of a played one
Untried(stats) == {j \in 1..Len(stats) : stats[j][3] = 0}
MeanOf(stats, j) == QDiv(stats[j][2], QInt(stats[j][3]))
\* the first key in enumeration order among the untried ones if there is
\* one, else the first key whose mean no other key undercuts
FirstLeast(stats) ==
    IF Untried(stats) # {}
    THEN stats[CHOOSE j \in Untried(stats) : \A o \in Untried(stats) : j <= o][1]
    ELSE LET least == {j \in 1..Len(stats) :
                         \A o \in 1..Len(stats) : ~QLess(MeanOf(stats, o), MeanOf(stats, j))}
         IN  stats[CHOOSE j \in least : \A o \in least : j <= o][1]
\* an iteration of play selects its types
Selects == pc = "loop" /\ pc' = "operate"

TotalPlays == SumSeq([j \in 1..Len(locals.types_stats) |-> locals.types_stats[j][3]])
\* the position of a tuple of types among the keys of types_stats
KeyOf(stats, types) == CHOOSE j \in 1..Len(stats) : stats[j][1] = types
\* lines 641-642 at the end of an iteration that took the lowest-mean branch
\* while a combination was untried
ExploringIterationEnds ==
    /\ pc = "record" /\ pc' = "loop"
    /\ locals.rule = "least"
    /\ Untried(locals.types_stats) # {}

\* ---- C23
\* The play counts of the type combinations always sum to the number of
\* completed iterations; an iteration of an adversarial play that took the
\* lowest-mean branch while a combination was untried ends with one untried
\* combination fewer, the one it played; and once K iterations that took the
\* branch are completed (K the number of combinations) every combination has
\* a play count of at least 1.
C23_EveryCombinationPlayed ==
    /\ [](pc # "idle" =>
            /\ TotalPlays = locals.iteration
            /\ locals.least >= Len(locals.types_stats) =>
                  Untried(locals.types_stats) = {})
    /\ [][ExploringIterationEnds =>
            /\ KeyOf(locals.types_stats, locals.types) \in Untried(locals.types_stats)
            /\ Untried(locals'.types_stats) =
                  Untried(locals.types_stats) \ {KeyOf(locals.types_stats, locals.types)}]_vars

\* an adversarial play that has completed K = 2 iterations of the lowest-mean
\* branch and one more iteration
C23_Witness ==
    /\ pc = "loop"
    /\ locals.adversarial
    /\ Len(locals.types_stats) = 2
    /\ locals.least = 2
    /\ locals.iteration = 3
    /\ \A j \in 1..2 : locals.types_stats[j][3] >= 1


\* the player and the type of the automaton at position j of automata
PlayerOf(j) == PlayerAt(locals.types_count, j, 0)
TypeOf(j) == Cardinality({o \in 1..(j - 1) : PlayerOf(o) = PlayerOf(j)})
\* how many times a call is in the log of the running iteration
Count(call) == Cardinality({k \in 1..Len(log) : log[k] = call})
AutomatonCalls == {"Operate", "Choose", "Remember"}
\* the step is the call by the automaton at position j
Acts(call, j) ==
    /\ Logged(call)
    /\ call = "Operate" =>
          lastCall'.op = "LocalOperation" /\ lastCall'.handle = automata[j].id
    /\ call = "Choose" =>
          lastCall'.op = "Observable" /\ lastCall'.handle = automata[j].id
    /\ call = "Remember" =>
          /\ Len(remembered'[j]) = Len(remembered[j]) + 1
          /\ automata'[j].TotalPlayed = automata[j].TotalPlayed + 1
\* the sum of _TotalPlayed over the automata of player i
PlaysOf(i) ==
    SumSeq([j \in 1..Len(automata) |->
               IF PlayerOf(j) = i THEN automata[j].TotalPlayed ELSE 0])
\* every call of an iteration is by the automaton of the next player and of
\* the selected type, and leaves every other automaton as it was
OneAutomatonActs ==
    /\ \A call \in AutomatonCalls :
          Logged(call) =>
             \E j \in 1..Len(automata) :
                /\ Acts(call, j)
                /\ PlayerOf(j) = Count(call)
                /\ TypeOf(j) = locals.types[PlayerOf(j) + 1]
                /\ \A o \in 1..Len(automata) :
                      o # j => /\ ~Acts(call, o)
                               /\ automata'[o] = automata[o]
                               /\ remembered'[o] = remembered[o]
    /\ \A j \in 1..Len(automata) :
          automata'[j] # automata[j] => \E call \in AutomatonCalls : Acts(call, j)
\* between the calls: each call was made once per player in an iteration that
\* reached its end, and the plays of each player's automata add up
CallsAndPlaysCounted ==
    /\ pc = "record" => \A call \in AutomatonCalls : Count(call) = locals.N
    /\ pc \in {"loop", "operate", "observe", "choose", "payoffs", "remember",
               "record", "done"} =>
          \A i \in 0..(locals.N - 1) :
             PlaysOf(i) = locals.iteration +
                 (IF pc = "record" \/ (pc = "remember" /\ i < Count("Remember"))
                  THEN 1 ELSE 0)

\* ---- C24
\* In every iteration of play each of Operate, Choose and Remember is executed
\* once per player, by the automaton of that player's selected type, and no
\* field of any other automaton changes; the play counts of the automata of
\* each player sum to the number of completed iterations.
C24_OnlySelectedAutomataAct == []CallsAndPlaysCounted /\ [][OneAutomatonActs]_vars

\* two completed iterations of the game with two types that selected
\* different types: each automaton of the player has played once
C24_Witness ==
    /\ pc = "loop"
    /\ locals.iteration = 2
    /\ Len(automata) = 2
    /\ locals.N = 1
    /\ automata[1].TotalPlayed = 1
    /\ automata[2].TotalPlayed = 1
    /\ PlaysOf(0) = 2


\* the positions (from 1) of the block of Strategy that belongs to the
\* observable o of automaton a
BlockOf(a, o) ==
    (a.ParametersCount + a.ChoicesCount * o + 1) ..
        (a.ParametersCount + a.ChoicesCount * (o + 1))
\* the positions at which two vectors of one length differ
Changed(s, t) == {k \in 1..Len(s) : s[k] # t[k]}
StrategyFrame ==
    /\ Logged("Operate") =>
          Changed(automata[Selected].Strategy, automata'[Selected].Strategy)
              \subseteq 1..automata[Selected].ParametersCount
    /\ Logged("Choose") =>
          \/ /\ lastCall'.outcome = "error"
             /\ automata'[Selected].Strategy = automata[Selected].Strategy
          \/ /\ lastCall'.outcome = "ok"
             /\ automata'[Selected].Observable = lastCall'.value
             /\ Changed(automata[Selected].Strategy, automata'[Selected].Strategy)
                   \subseteq BlockOf(automata[Selected], lastCall'.value)
\* the length __init__ gives the Strategy
StrategyLength ==
    \A j \in 1..Len(automata) :
       Len(automata[j].Strategy) =
          LocalOperationParametersCount + RegisterSize * automata[j].ChoicesCount

\* ---- C25
\* The Strategy of every automaton keeps the length P + RegisterSize *
\* ChoicesCount (P the parameter count of the Correlation); an Operate call
\* changes entries among the first P only, and a Choose call changes entries
\* of the block of the Observable it has just read only.
C25_StrategyBlocks == []StrategyLength /\ [][StrategyFrame]_vars

\* an automaton that has operated and then chosen on reading the Observable
\* 1: entries of its local operation and of its second block have changed,
\* and its first block is as __init__ left it
C25_Witness ==
    \E j \in 1..Len(automata) :
       LET a == automata[j]
       IN  /\ a.Observable = 1
           /\ \E k \in 1..a.ParametersCount : a.Strategy[k] # <<0, 1>>
           /\ \E k \in BlockOf(a, 1) : a.Strategy[k] # <<0, 1>>
           /\ \A k \in BlockOf(a, 0) : a.Strategy[k] = <<0, 1>>
           /\ StrategyLength


\* a matrix whose entries tell row and column apart, and the _Matrices that
\* hold it for slot a beside identities
Marker(R) == [r \in 1..R |-> [c \in 1..R |-> <<(r - 1) * R + c + 1, 0>>]]
Probe(R, n, a) == [s \in 1..n |-> IF s = a + 1 THEN Marker(R) ELSE Identity(R)]
\* the digit position (0 the least significant) at which the tensor loop
\* reads the row and column of the matrix of slot a
MatrixPosition(R, n, a) ==
    CHOOSE p \in 0..(n - 1) :
       \A tj, ti \in 0..(Pow(R, n) - 1) :
          (\A o \in 0..(n - 1) : o # p => DigitAt(tj, R, o) = DigitAt(ti, R, o)) =>
             TensorEntry(Probe(R, n, a), R, n - 1, tj, ti) =
                Marker(R)[DigitAt(tj, R, p) + 1][DigitAt(ti, R, p) + 1]

\* ---- C26
\* After QuantumCorrelation.Observe() the Observable of every slot a is the
\* digit of the sampled joint index at the position on which the matrix of
\* slot a acted in the tensor product.
C26_ObservableIsOwnDigit ==
    (kind = "Quantum" /\ lastCall.op = "Observe" /\ lastCall.outcome = "ok") =>
        \A a \in 0..(Len(Agents) - 1) :
            Observables[a + 1] =
                DigitAt(measurement, RegisterSize,
                        MatrixPosition(RegisterSize, Len(Agents), a))


\* the probabilities Observe computes for the state and matrices at hand
ObservedProbabilities ==
    LET n == Len(Agents)
        len == Pow(RegisterSize, n)
        state == TransformedState(SubSeq(QuantumState, 1, len), Matrices,
                                  RegisterSize, n)
    IN  [x \in 1..len |-> AmpProb(state[x])]

\* ---- C27
\* The index WeightedChoice returns to QuantumCorrelation.Observe() for a
\* draw r in [0, sum of the probabilities], when some probability is
\* positive, is an index of the probabilities whose probability is positive:
\* no joint outcome of computed probability zero is observed.
C27_SampledOutcomeIsPossible ==
    (/\ kind = "Quantum" /\ lastCall.op = "Observe" /\ lastCall.outcome = "ok"
     /\ \E x \in 1..Len(ObservedProbabilities) : ObservedProbabilities[x][1] > 0) =>
        /\ measurement \in 0..(Len(ObservedProbabilities) - 1)
        /\ ObservedProbabilities[measurement + 1][1] > 0

====
